---- MODULE Spec2Model ----
(***************************************************************************)
(* ryujin: approximate Riemann solver (wave-speed estimator) and the       *)
(* explicit Euler time-stepping module (EulerModule).                      *)
(*                                                                         *)
(* Arithmetic.  The template parameter Number is a finite-precision type   *)
(* (float / double).  It is modelled by fixed-point numbers: the value x   *)
(* is the integer x * Scale.  Addition, subtraction, max and min are       *)
(* exact; multiplication, division, sqrt and pow round their exact result  *)
(* to the nearest representable number.                                    *)
(***************************************************************************)
EXTENDS Integers, Sequences, FiniteSets, TLC

\* ------------------------------------------------------------------------
\* Bounds of the model
\* ------------------------------------------------------------------------

\* number of representable values per unit (the precision of Number)
Scale == 1024

\* ------------------------------------------------------------------------
\* Number: finite-precision arithmetic
\* ------------------------------------------------------------------------

One == Scale

Abs(x) == IF x < 0 THEN -x ELSE x

Max(x, y) == IF x >= y THEN x ELSE y

Min(x, y) == IF x <= y THEN x ELSE y

\* the integer nearest to n / d for d > 0, ties away from zero
RoundDivPositive(n, d) ==
  IF n >= 0 THEN (n + d \div 2) \div d ELSE -((d \div 2 - n) \div d)

\* the integer nearest to n / d (d # 0), ties away from zero
RoundDiv(n, d) ==
  IF d > 0 THEN RoundDivPositive(n, d) ELSE RoundDivPositive(-n, -d)

\* the Number nearest to num / den
Num(num, den) == RoundDiv(num * Scale, den)

\* x * y
Mul(x, y) == RoundDiv(x * y, Scale)

\* x / y
Div(x, y) == RoundDiv(x * Scale, y)

\* floor of the square root of the integer n >= 0, by bisection on [lo, hi)
RECURSIVE IsqrtIter(_, _, _)
IsqrtIter(n, lo, hi) ==
  IF hi - lo <= 1 THEN lo
  ELSE LET mid == (lo + hi) \div 2
       IN  IF mid * mid <= n THEN IsqrtIter(n, mid, hi)
                             ELSE IsqrtIter(n, lo, mid)

RECURSIVE IsqrtHi(_, _)
IsqrtHi(n, h) == IF h * h > n THEN h ELSE IsqrtHi(n, 2 * h)

\* r or r + 1, whichever is nearer to the square root of n, for r = floor
SqrtNearest(n, r) == IF n - r * r > r THEN r + 1 ELSE r

\* std::sqrt: the Number nearest to the square root of x >= 0
Sqrt(x) == SqrtNearest(x * Scale, IsqrtIter(x * Scale, 0, IsqrtHi(x * Scale, 1)))

\* x^k for an integer k >= 1
RECURSIVE PowInt(_, _)
PowInt(x, k) == IF k = 1 THEN x ELSE Mul(x, PowInt(x, k - 1))

RECURSIVE RootIter(_, _, _, _)
RootIter(x, k, lo, hi) ==
  IF hi - lo <= 1 THEN lo
  ELSE LET mid == (lo + hi) \div 2
       IN  IF PowInt(mid, k) <= x THEN RootIter(x, k, mid, hi)
                                  ELSE RootIter(x, k, lo, mid)

RECURSIVE RootHi(_, _, _)
RootHi(x, k, h) == IF PowInt(h, k) > x THEN h ELSE RootHi(x, k, 2 * h)

\* r or r + 1, whichever has its k-th power nearer to x
RootNearest(x, k, r) ==
  IF PowInt(r + 1, k) - x < x - PowInt(r, k) THEN r + 1 ELSE r

\* the Number r >= 0 whose k-th power is nearest to x >= 0
Root(x, k) ==
  IF k = 1 THEN x ELSE RootNearest(x, k, RootIter(x, k, 0, RootHi(x, k, One)))

RECURSIVE GCD(_, _)
GCD(m, n) == IF n = 0 THEN m ELSE GCD(n, m % n)

\* y for a positive exponent, 1 / y for a negative one
PowSigned(en, y) == IF en < 0 THEN Div(One, y) ELSE y

\* ryujin::pow(x, e) for x >= 0 and the rational exponent e = en / ed, ed > 0
pow(x, en, ed) ==
  PowSigned(en, PowInt(Root(x, ed \div GCD(Abs(en), ed)),
                       Abs(en) \div GCD(Abs(en), ed)))

positive_part(x) == Max(0, x)

negative_part(x) == -Min(0, x)

\* ------------------------------------------------------------------------
\* Euler::RiemannSolver (riemann_solver.template.h)
\* ------------------------------------------------------------------------

\* hyperbolic_system.gamma(): the adiabatic exponent GammaNum / GammaDen
GammaNum == 7

GammaDen == 5

gamma == Num(GammaNum, GammaDen)

gamma_inverse == Div(One, gamma)

gamma_minus_one_inverse == Div(One, gamma - One)

Half == Num(1, 2)

\* a primitive_type: the 1-D Riemann data (rho, u, p, a)
Primitive(rho, u, p, a) == [rho |-> rho, u |-> u, p |-> p, a |-> a]

phi_of_p_max(riemann_data_i, riemann_data_j) ==
  LET rho_i == riemann_data_i.rho
      u_i   == riemann_data_i.u
      p_i   == riemann_data_i.p
      rho_j == riemann_data_j.rho
      u_j   == riemann_data_j.u
      p_j   == riemann_data_j.p
      p_max == Max(p_i, p_j)
      radicand_inverse_i ==
        Mul(Mul(Half, rho_i),
            Mul(gamma + One, p_max) + Mul(gamma - One, p_i))
      value_i == Div(p_max - p_i, Sqrt(radicand_inverse_i))
      radicand_inverse_j ==
        Mul(Mul(Half, rho_j),
            Mul(gamma + One, p_max) + Mul(gamma - One, p_j))
      value_j == Div(p_max - p_j, Sqrt(radicand_inverse_j))
  IN  value_i + value_j + u_j - u_i

\* lambda1_minus with the sign of the sound-speed term flipped
lambda1_minus_plus_sign(riemann_data, p_star) ==
  LET u == riemann_data.u
      p == riemann_data.p
      a == riemann_data.a
      inv_p == Div(One, p)
      factor == Mul(Mul(gamma + One, Half), gamma_inverse)
      tmp == positive_part(Mul(p_star - p, inv_p))
  IN  u + Mul(a, Sqrt(One + Mul(factor, tmp)))

lambda1_minus(riemann_data, p_star) ==
  LET u == riemann_data.u
      p == riemann_data.p
      a == riemann_data.a
      inv_p == Div(One, p)
      factor == Mul(Mul(gamma + One, Half), gamma_inverse)
      tmp == positive_part(Mul(p_star - p, inv_p))
  IN  u - Mul(a, Sqrt(One + Mul(factor, tmp)))

lambda3_plus(primitive_state, p_star) ==
  LET u == primitive_state.u
      p == primitive_state.p
      a == primitive_state.a
      inv_p == Div(One, p)
      factor == Mul(Mul(gamma + One, Half), gamma_inverse)
      tmp == positive_part(Mul(p_star - p, inv_p))
  IN  u + Mul(a, Sqrt(One + Mul(factor, tmp)))

\* compute_lambda without the positive and negative parts
compute_lambda_without_parts(riemann_data_i, riemann_data_j, p_star) ==
  LET nu_11 == lambda1_minus(riemann_data_i, p_star)
      nu_32 == lambda3_plus(riemann_data_j, p_star)
  IN  Max(nu_32, nu_11)

compute_lambda(riemann_data_i, riemann_data_j, p_star) ==
  LET nu_11 == lambda1_minus(riemann_data_i, p_star)
      nu_32 == lambda3_plus(riemann_data_j, p_star)
  IN  Max(positive_part(nu_32), negative_part(nu_11))

\* p_star_two_rarefaction with the velocity difference replaced by the sum
p_star_two_rarefaction_velocity_sum(riemann_data_i, riemann_data_j) ==
  LET u_i == riemann_data_i.u
      p_i == riemann_data_i.p
      a_i == riemann_data_i.a
      u_j == riemann_data_j.u
      p_j == riemann_data_j.p
      a_j == riemann_data_j.a
      inv_p_j == Div(One, p_j)
      factor == Mul(gamma - One, Half)
      numerator == positive_part(a_i + a_j - Mul(factor, u_j + u_i))
      denominator ==
        Mul(a_i, pow(Mul(p_i, inv_p_j),
                     -(GammaNum - GammaDen), 2 * GammaNum)) + a_j
  IN  Mul(p_j, pow(Div(numerator, denominator),
                   2 * GammaNum, GammaNum - GammaDen))

\* p_star_two_rarefaction with the absolute value in place of the positive
\* part of the numerator
p_star_two_rarefaction_absolute_value(riemann_data_i, riemann_data_j) ==
  LET u_i == riemann_data_i.u
      p_i == riemann_data_i.p
      a_i == riemann_data_i.a
      u_j == riemann_data_j.u
      p_j == riemann_data_j.p
      a_j == riemann_data_j.a
      inv_p_j == Div(One, p_j)
      factor == Mul(gamma - One, Half)
      numerator == Abs(a_i + a_j - Mul(factor, u_j - u_i))
      denominator ==
        Mul(a_i, pow(Mul(p_i, inv_p_j),
                     -(GammaNum - GammaDen), 2 * GammaNum)) + a_j
  IN  Mul(p_j, pow(Div(numerator, denominator),
                   2 * GammaNum, GammaNum - GammaDen))

p_star_two_rarefaction(riemann_data_i, riemann_data_j) ==
  LET u_i == riemann_data_i.u
      p_i == riemann_data_i.p
      a_i == riemann_data_i.a
      u_j == riemann_data_j.u
      p_j == riemann_data_j.p
      a_j == riemann_data_j.a
      inv_p_j == Div(One, p_j)
      factor == Mul(gamma - One, Half)
      numerator == positive_part(a_i + a_j - Mul(factor, u_j - u_i))
      \* exponent -factor * gamma_inverse = -(gamma - 1) / (2 gamma)
      denominator ==
        Mul(a_i, pow(Mul(p_i, inv_p_j),
                     -(GammaNum - GammaDen), 2 * GammaNum)) + a_j
      \* exponent 2 * gamma * gm1_inverse = 2 gamma / (gamma - 1)
  IN  Mul(p_j, pow(Div(numerator, denominator),
                   2 * GammaNum, GammaNum - GammaDen))

\* the mask of less_than_or_equal: phi(p_max) = 0 selects p_star_tilde
compare_and_apply_mask_less_than_or_equal(p_max, p_star_tilde, phi_p_max) ==
  IF phi_p_max <= 0 THEN p_star_tilde ELSE Min(p_max, p_star_tilde)

\* compare_and_apply_mask<less_than>(phi_p_max, 0, p_star_tilde,
\*                                   min(p_max, p_star_tilde))
compare_and_apply_mask(p_max, p_star_tilde, phi_p_max) ==
  IF phi_p_max < 0 THEN p_star_tilde ELSE Min(p_max, p_star_tilde)

\* the pressure p_2 selected in compute
p_2_of(riemann_data_i, riemann_data_j) ==
  compare_and_apply_mask(Max(riemann_data_i.p, riemann_data_j.p),
                         p_star_two_rarefaction(riemann_data_i, riemann_data_j),
                         phi_of_p_max(riemann_data_i, riemann_data_j))

compute(riemann_data_i, riemann_data_j) ==
  compute_lambda(riemann_data_i, riemann_data_j,
                 p_2_of(riemann_data_i, riemann_data_j))

\* ------------------------------------------------------------------------
\* Equation interface: conserved states (rho, m, E) of the 1-D Euler equations
\* ------------------------------------------------------------------------

State(rho, m, E) == [rho |-> rho, m |-> m, E |-> E]

SAdd(U, V) == State(U.rho + V.rho, U.m + V.m, U.E + V.E)

SSub(U, V) == State(U.rho - V.rho, U.m - V.m, U.E - V.E)

SMul(x, U) == State(Mul(x, U.rho), Mul(x, U.m), Mul(x, U.E))

ZeroState == State(0, 0, 0)

\* p = (gamma - 1) (E - m^2 / (2 rho))
pressure(U) == Mul(gamma - One, U.E - Div(Mul(U.m, U.m), 2 * U.rho))

\* a = sqrt(gamma p / rho)
speed_of_sound(U) == Sqrt(Div(Mul(gamma, pressure(U)), U.rho))

\* the conserved state of the primitive state (rho, u, p)
from_primitive_state(rho, u, p) ==
  State(rho, Mul(rho, u),
        Mul(p, gamma_minus_one_inverse) + Mul(Half, Mul(rho, Mul(u, u))))

\* the 1-D Riemann data of U along the unit direction n (n = 1 or n = -1)
riemann_data_from_state(U, n) ==
  Primitive(U.rho, n * Div(U.m, U.rho), pressure(U), speed_of_sound(U))

\* flux(U) . c for the direction vector c
flux_times_c(U, c) ==
  LET u == Div(U.m, U.rho)
      p == pressure(U)
  IN  SMul(c, State(U.m, Mul(U.m, u) + p, Mul(u, U.E + p)))

\* the invariant domain: positive density and positive pressure
is_admissible(U) == U.rho > 0 /\ pressure(U) > 0

\* ------------------------------------------------------------------------
\* EulerInitialStates::LeBlanc (initial_state_leblanc.h)
\* ------------------------------------------------------------------------

\* initial left and right states (rho, u, p)
primitive_left == <<One, 0, Num(1, 15)>>

\* 2.0 / 3.0 * 1.e-10 is below the resolution of Number
primitive_right ==
  <<Num(1, 1000), 0, Div(Div(Num(2, 3), Num(100000, 1)), Num(100000, 1))>>

\* the intermediate wave speeds of the Riemann fan, to six digits
rarefaction_speed == Num(495785, 1000000)

contact_velocity == Num(621839, 1000000)

right_shock_speed == Num(829118, 1000000)

pre_contact_density == Num(54079, 1000000)

post_contact_density == Num(4000, 1000000)

contact_pressure == Num(516, 1000000)

\* x < -1.0 / 3.0 * t in place of x <= -1.0 / 3.0 * t
left_of_fan_strict(x, t) == x < Mul(-Num(1, 3), t)

\* x <= -1.0 / 3.0 * t
left_of_fan(x, t) == x <= Mul(-Num(1, 3), t)

\* the branch of the if-else chain taken for the point x at time t
region_of(x, t) ==
  IF left_of_fan(x, t) THEN "left"
  ELSE IF x < Mul(rarefaction_speed, t) THEN "expansion"
  ELSE IF x < Mul(contact_velocity, t) THEN "pre_contact"
  ELSE IF x < Mul(right_shock_speed, t) THEN "post_contact"
  ELSE "right"

\* the expansion data for the self-similar variable chi
expansion_data(chi) ==
  <<PowInt(Num(3, 4) - Mul(Num(3, 4), chi), 3),
    Mul(Num(3, 4), Num(1, 3) + chi),
    Mul(Num(1, 15), PowInt(Num(3, 4) - Mul(Num(3, 4), chi), 5))>>

\* the quotient x / t of doubles: a division by zero yields no number
quotient(x, t) == IF t = 0 THEN "not a number" ELSE Div(x, t)

\* the primitive state (rho, u, p) of the branch
primitive_of(region, x, t) ==
  CASE region = "left" -> primitive_left
    [] region = "expansion" ->
         IF t = 0 THEN <<quotient(x, t), quotient(x, t), quotient(x, t)>>
         ELSE expansion_data(quotient(x, t))
    [] region = "pre_contact" ->
         <<pre_contact_density, contact_velocity, contact_pressure>>
    [] region = "post_contact" ->
         <<post_contact_density, contact_velocity, contact_pressure>>
    [] OTHER -> primitive_right

\* ------------------------------------------------------------------------
\* Graph operator store (OfflineData): lumped mass m_i and vectors c_ij
\* ------------------------------------------------------------------------

\* number of nodes of the graph
NumNodes == 3

Nodes == 1 .. NumNodes

Entries == Nodes \X Nodes

\* a periodic 1-D mesh of NumNodes cells of width 1
Ring ==
  [lumped_mass_matrix |-> [i \in Nodes |-> One],
   cij_matrix |->
     [e \in Entries |->
        IF e[2] = (e[1] % NumNodes) + 1 THEN Half
        ELSE IF e[1] = (e[2] % NumNodes) + 1 THEN -Half
        ELSE 0]]

\* a 1-D mesh with boundary on the nodes 1 .. NumNodes - 1; the last node is
\* coupled to no other node
ChainAndIsolated ==
  [lumped_mass_matrix |->
     [i \in Nodes |-> IF i = 1 \/ i = NumNodes - 1 THEN Half ELSE One],
   cij_matrix |->
     [e \in Entries |->
        IF e[1] = NumNodes \/ e[2] = NumNodes THEN 0
        ELSE IF e[2] = e[1] + 1 THEN Half
        ELSE IF e[1] = e[2] + 1 THEN -Half
        ELSE IF e[1] = e[2] /\ e[1] = 1 THEN -Half
        ELSE IF e[1] = e[2] /\ e[1] = NumNodes - 1 THEN Half
        ELSE 0]]

GraphSet == {Ring, ChainAndIsolated}

\* the off-diagonal neighbours of node i
neighbors(g, i) == {j \in Nodes : j # i /\ g.cij_matrix[<<i, j>>] # 0}

Sign(x) == IF x < 0 THEN -1 ELSE 1

RECURSIVE SumOver(_, _)
\* f[1] + ... + f[n]
SumOver(f, n) == IF n = 0 THEN 0 ELSE SumOver(f, n - 1) + f[n]

RECURSIVE SumStates(_, _)
SumStates(f, n) == IF n = 0 THEN ZeroState ELSE SAdd(SumStates(f, n - 1), f[n])

\* ------------------------------------------------------------------------
\* EulerModule::step: the parts of one explicit Euler step
\* ------------------------------------------------------------------------

\* a vector or matrix held in memory: the values of f, each computed once
Stored(f) == IF f = f THEN f ELSE f

\* is (i, j) an off-diagonal entry of the sparsity graph
IsEdge(g, i, j) == i # j /\ g.cij_matrix[<<i, j>>] # 0

\* the estimator's bound for the edge (i, j), scaled by the edge weight |c_ij|
lambda_times_norm(g, U, i, j) ==
  LET c_ij == g.cij_matrix[<<i, j>>]
      n_ij == Sign(c_ij)
  IN  Mul(compute(riemann_data_from_state(U[i], n_ij),
                  riemann_data_from_state(U[j], n_ij)),
          Abs(c_ij))

\* viscosity assembly that evaluates the estimator in one ordering only
compute_dij_one_ordering(g, U) ==
  [e \in Entries |->
     IF IsEdge(g, e[1], e[2]) THEN lambda_times_norm(g, U, e[1], e[2]) ELSE 0]

\* viscosity assembly: d_ij = d_ji = max over both orderings
compute_dij(g, U) ==
  [e \in Entries |->
     IF IsEdge(g, e[1], e[2])
       THEN Max(lambda_times_norm(g, U, e[1], e[2]),
                lambda_times_norm(g, U, e[2], e[1]))
       ELSE 0]

\* sum_j d_ij over the off-diagonal entries of row i
row_sum(d, i) == SumOver([j \in Nodes |-> d[<<i, j>>]], NumNodes)

\* the value of tau_max when no node constrains it
TauUnconstrained == 1000 * One

SetMin(S) == CHOOSE x \in S : \A y \in S : x <= y

\* tau_max without the factor 2 of the bound
compute_tau_max_without_factor_two(g, d, cfl) ==
  LET constrained == {i \in Nodes : neighbors(g, i) # {}}
  IN  IF constrained = {} THEN TauUnconstrained
      ELSE SetMin({Div(Mul(cfl, g.lumped_mass_matrix[i]), row_sum(d, i)) :
                     i \in constrained})

\* tau_max = min_i cfl * m_i / (2 sum_j d_ij) over the nodes with neighbours
compute_tau_max(g, d, cfl) ==
  LET constrained == {i \in Nodes : neighbors(g, i) # {}}
  IN  IF constrained = {} THEN TauUnconstrained
      ELSE SetMin({Div(Mul(cfl, g.lumped_mass_matrix[i]), 2 * row_sum(d, i)) :
                     i \in constrained})

\* a prescribed tau clipped by tau_max
select_tau_clipped(tau, tau_max) ==
  IF tau = 0 THEN tau_max ELSE Min(tau, tau_max)

\* tau = prescribed tau if nonzero else tau_max
select_tau(tau, tau_max) == IF tau = 0 THEN tau_max ELSE tau

\* U_i - (tau / m_i) sum_j [ flux(U_j) . c_ij - d_ij (U_j - U_i) ]
low_order_update(g, U, d, tau) ==
  [i \in Nodes |->
     LET term == [j \in Nodes |->
                    SSub(flux_times_c(U[j], g.cij_matrix[<<i, j>>]),
                         SMul(d[<<i, j>>], SSub(U[j], U[i])))]
     IN  SSub(U[i], SMul(Div(tau, g.lumped_mass_matrix[i]),
                         SumStates(term, NumNodes)))]

\* P_ij built from the state of the neighbour instead of the difference
compute_pij_of_neighbour_state(g, U, d, alpha, tau) ==
  [e \in Entries |->
     IF IsEdge(g, e[1], e[2])
       THEN SMul(Div(tau, g.lumped_mass_matrix[e[1]]),
                 SMul(Mul(alpha, d[e]) - d[e], U[e[2]]))
       ELSE ZeroState]

\* the high-order correction of edge (i, j):
\* P_ij = (tau / m_i) (d^H_ij - d_ij) (U_j - U_i), with d^H_ij = alpha d_ij
compute_pij(g, U, d, alpha, tau) ==
  [e \in Entries |->
     IF IsEdge(g, e[1], e[2])
       THEN SMul(Div(tau, g.lumped_mass_matrix[e[1]]),
                 SMul(Mul(alpha, d[e]) - d[e], SSub(U[e[2]], U[e[1]])))
       ELSE ZeroState]

SetMax(S) == CHOOSE x \in S : \A y \in S : x >= y

\* bounds of node i: min and max of the density of the low-order update over
\* the node and its neighbours
compute_bounds(g, low_U, i) ==
  LET rhos == {low_U[j].rho : j \in neighbors(g, i) \cup {i}}
  IN  [rho_min |-> SetMin(rhos), rho_max |-> SetMax(rhos)]

Clamp01(t) == Max(0, Min(One, t))

\* the largest t in [0, 1] for which U + t P keeps the density within bounds
limit(bounds, U, P) ==
  IF U.rho + P.rho > bounds.rho_max
    THEN Clamp01(Div(bounds.rho_max - U.rho, P.rho))
  ELSE IF U.rho + P.rho < bounds.rho_min
    THEN Clamp01(Div(bounds.rho_min - U.rho, P.rho))
  ELSE One

\* U + t P
state_at(U, P, t) == SAdd(U, SMul(t, P))

\* the quadratic constraint of the limiter: rho E - m^2 / 2 = rho^2 e >= 0
\* (positive internal energy, that is, positive pressure) along U + t P
psi_at(U, P, t) ==
  Mul(state_at(U, P, t).rho, state_at(U, P, t).E)
    - Mul(Half, Mul(state_at(U, P, t).m, state_at(U, P, t).m))

\* d psi / d t along U + t P
dpsi_at(U, P, t) ==
  Mul(P.rho, state_at(U, P, t).E) + Mul(state_at(U, P, t).rho, P.E)
    - Mul(state_at(U, P, t).m, P.m)

\* the tolerance of the refinement
newton_tolerance == Num(1, 64)

\* the bracket [t_l, t_r] gives a refinement that is numerically consistent:
\* the constraint holds at t_r, or it holds at t_l and the bracket is small
refinement_consistent(U, P, t_l, t_r) ==
  \/ psi_at(U, P, t_r) >= 0
  \/ (psi_at(U, P, t_l) >= 0 /\ t_r - t_l <= newton_tolerance)

\* the coefficient of a consistent bracket
refined_coefficient(U, P, t_l, t_r) ==
  IF psi_at(U, P, t_r) >= 0 THEN t_r ELSE t_l

\* the Newton step from the right end of the bracket, kept in the bracket
newton_right(U, P, t_l, t_r) ==
  IF dpsi_at(U, P, t_r) < 0
    THEN Max(t_l, Min(t_r, t_r - Div(psi_at(U, P, t_r), dpsi_at(U, P, t_r))))
    ELSE t_r

\* the secant step from the left end of the bracket, kept in the bracket
secant_left(U, P, t_l, t_r) ==
  IF psi_at(U, P, t_l) > 0 /\ psi_at(U, P, t_r) < 0
    THEN Max(t_l, Min(t_r, t_l + Div(Mul(psi_at(U, P, t_l), t_r - t_l),
                                     psi_at(U, P, t_l) - psi_at(U, P, t_r))))
    ELSE t_l

\* one more iteration than newton_max_iter
keep_iterating_once_more(n, newton_max_iter, consistent) ==
  n <= newton_max_iter /\ ~consistent

\* the loop condition of the refinement: for (n = 0; n < newton_max_iter; ++n)
\* left early once the bracket is consistent
keep_iterating(n, newton_max_iter, consistent) ==
  n < newton_max_iter /\ ~consistent

\* l_ij computed from the bounds of node i alone
compute_lij_own_bounds(g, low_U, pij) ==
  [e \in Entries |->
     IF IsEdge(g, e[1], e[2])
       THEN limit(compute_bounds(g, low_U, e[1]), low_U[e[1]], pij[e])
       ELSE One]

\* l_ij = min(coefficient of node i's bounds, coefficient of node j's bounds)
compute_lij(g, low_U, pij) ==
  [e \in Entries |->
     IF IsEdge(g, e[1], e[2])
       THEN Min(limit(compute_bounds(g, low_U, e[1]), low_U[e[1]], pij[e]),
                limit(compute_bounds(g, low_U, e[2]), low_U[e[2]],
                      pij[<<e[2], e[1]>>]))
       ELSE One]

\* U_i^new = low_order_i + sum_j l_ij P_ij
corrected_update(low_U, lij, pij) ==
  [i \in Nodes |->
     SAdd(low_U[i],
          SumStates([j \in Nodes |-> SMul(lij[<<i, j>>], pij[<<i, j>>])],
                    NumNodes))]

\* the high-order flux of node i:
\* R_i = sum_j ( -flux(U_j) . c_ij + d^H_ij (U_j - U_i) )
high_order_flux(g, U, dH, i) ==
  SumStates([j \in Nodes |->
               SSub(SMul(dH[<<i, j>>], SSub(U[j], U[i])),
                    flux_times_c(U[j], g.cij_matrix[<<i, j>>]))],
            NumNodes)

\* sum_s w_s
sum_of_weights(stage) ==
  SumOver([s \in 1 .. Len(stage) |-> stage[s].weight], Len(stage))

\* R_i + sum_s w_s R_i^s: the standard flux is not scaled down
modified_high_order_flux_unscaled(g, old_U, dH, stage, i) ==
  SAdd(high_order_flux(g, old_U, dH, i),
       SumStates([s \in 1 .. Len(stage) |->
                    SMul(stage[s].weight,
                         high_order_flux(g, stage[s].U, stage[s].dij, i))],
                 Len(stage)))

\* the modified high-order flux of node i:
\* (1 - sum_s w_s) R_i + sum_s w_s R_i^s
modified_high_order_flux(g, old_U, dH, stage, i) ==
  SAdd(SMul(One - sum_of_weights(stage), high_order_flux(g, old_U, dH, i)),
       SumStates([s \in 1 .. Len(stage) |->
                    SMul(stage[s].weight,
                         high_order_flux(g, stage[s].U, stage[s].dij, i))],
                 Len(stage)))

\* a tolerance of 100% instead of 10%
cfl_tolerance_wide == Num(2, 1)

\* the relative tolerance of the check of tau against tau_max: about 10%
cfl_tolerance == Num(11, 10)

\* the violation check without the comparison of tau with tau_max
restart_needed_admissibility_only(new_state, tau, tau_max) ==
  \E i \in Nodes : ~is_admissible(new_state[i])

\* an invariant domain violation or a CFL violation was detected
restart_needed(new_state, tau, tau_max) ==
  \/ \E i \in Nodes : ~is_admissible(new_state[i])
  \/ tau > Mul(tau_max, cfl_tolerance)

\* ------------------------------------------------------------------------
\* State
\* ------------------------------------------------------------------------

VARIABLES
  offline_data,             \* the graph operator store the module was built with
  phase,                    \* "Uninitialized", "Prepared", "Restarted"
  id_violation_strategy_,   \* "warn" or "raise_exception"
  cfl_,                     \* the relative CFL number
  n_restarts_,              \* number of Restart exceptions raised
  n_warnings_,              \* number of violations that were only warned about
  dij_matrix_,              \* the graph viscosities d_ij
  lij_matrix_,              \* the limiter coefficients l_ij
  new_U,                    \* the output vector of step
  last_step,                \* arguments and results of the last call of step
  n_calls,                  \* number of calls of step
  restarted_calls,          \* number of calls of step that ended in a Restart
  rs_data_i,   \* first argument of RiemannSolver::compute
  rs_data_j,   \* second argument of RiemannSolver::compute
  rs_pc,            \* "input", "computed", "swapped"
  rs_result,        \* what compute evaluated for (rs_data_i, rs_data_j)
  rs_swapped,       \* the same for the states swapped and the direction negated
  st_graph,         \* the graph operator store of the flux assembly
  st_old_U,         \* argument old_U of step
  st_dij,           \* the high-order viscosity of old_U
  st_stages,        \* the sequence of (stage_U, stage_dij, stage_weights)
  st_pc,            \* "input", "assembled"
  st_flux,          \* the modified high-order flux of every node
  lim_bounds,       \* argument bounds of Limiter::limit
  lim_U,            \* argument U: the low-order state
  lim_P,            \* argument P: the correction
  lim_max_iter,     \* argument newton_max_iter (limiter_iter_)
  lim_pc,           \* "input", "refine", "returned"
  lim_n,            \* number of Newton iterations performed
  lim_t_l,          \* left end of the bracket of the refinement
  lim_t_r,          \* right end of the bracket of the refinement
  lim_result,       \* the returned (coefficient, flag) and the limited state
  lb_x,             \* point[0], argument of LeBlanc::compute
  lb_t,             \* argument t of LeBlanc::compute
  lb_pc,            \* "input", "returned"
  lb_result         \* the branch taken, its primitive state and the state returned

module_vars ==
  <<offline_data, phase, id_violation_strategy_, cfl_, n_restarts_,
    n_warnings_, dij_matrix_, lij_matrix_, new_U, last_step, n_calls,
    restarted_calls>>

rs_vars == <<rs_data_i, rs_data_j, rs_pc, rs_result, rs_swapped>>

stage_vars == <<st_graph, st_old_U, st_dij, st_stages, st_pc, st_flux>>

limiter_vars ==
  <<lim_bounds, lim_U, lim_P, lim_max_iter, lim_pc, lim_n, lim_t_l, lim_t_r,
    lim_result>>

leblanc_vars == <<lb_x, lb_t, lb_pc, lb_result>>

outside_module_vars == <<rs_vars, stage_vars, limiter_vars, leblanc_vars>>

outside_rs_vars == <<module_vars, stage_vars, limiter_vars, leblanc_vars>>

outside_stage_vars == <<module_vars, rs_vars, limiter_vars, leblanc_vars>>

outside_limiter_vars == <<module_vars, rs_vars, stage_vars, leblanc_vars>>

outside_leblanc_vars == <<module_vars, rs_vars, stage_vars, limiter_vars>>

vars == <<module_vars, rs_vars, stage_vars, limiter_vars, leblanc_vars>>

\* ------------------------------------------------------------------------
\* The Riemann solver applied to pairs of admissible states
\* ------------------------------------------------------------------------

RhoSet == {Num(1, 8), One}

USet == {-Num(3, 2), -Num(1, 2), 0, Num(3, 4), Num(3, 2)}

PSet == {Num(1, 10), One, Num(5, 2)}

ASet == {Num(1, 4), Num(6, 5)}

PrimitiveSet ==
  {Primitive(rho, u, p, a) : rho \in RhoSet, u \in USet, p \in PSet, a \in ASet}

\* a pair of states with phi(p_max) = 0: the state of higher pressure moves
\* towards the other one with the speed that makes p_max the exact pressure
LowPressureState == Primitive(One, 0, Num(1, 10), Num(3, 8))

HighPressureState ==
  Primitive(One,
            -phi_of_p_max(LowPressureState,
                          Primitive(One, 0, Num(5, 2), Num(15, 8))),
            Num(5, 2), Num(15, 8))

ZeroPhiPairs ==
  {<<LowPressureState, HighPressureState>>,
   <<[HighPressureState EXCEPT !.u = -HighPressureState.u], LowPressureState>>}

\* pairs of states that separate much faster than the speeds of sound
VacuumPairs ==
  {<<Primitive(One, -Num(8, 1), One, Num(1, 4)),
     Primitive(Num(1, 8), Num(8, 1), Num(1, 10), Num(6, 5))>>,
   <<Primitive(Num(1, 8), -Num(8, 1), Num(1, 10), Num(6, 5)),
     Primitive(One, Num(8, 1), One, Num(1, 4))>>}

\* the pairs of states handed to compute
PairSet == (PrimitiveSet \X PrimitiveSet) \cup ZeroPhiPairs \cup VacuumPairs

\* the state seen in the opposite direction -n_ij: the normal velocity changes sign
Mirror(s) == [s EXCEPT !.u = -s.u]

NoResult == [lambda_max |-> 0, p_2 |-> 0, p_star_tilde |-> 0, phi_p_max |-> 0]

\* the intermediate values and the return value of compute
Evaluate(data_i, data_j) ==
  [lambda_max   |-> compute(data_i, data_j),
   p_2          |-> p_2_of(data_i, data_j),
   p_star_tilde |-> p_star_two_rarefaction(data_i, data_j),
   phi_p_max    |-> phi_of_p_max(data_i, data_j)]


\* ------------------------------------------------------------------------
\* EulerModule: construction, prepare, cfl, step
\* ------------------------------------------------------------------------

\* bound on the number of calls of step
MaxCalls == 2

IDViolationStrategy == {"warn", "raise_exception"}

\* the relative CFL numbers an EulerModule is constructed with
CflSet == {Half, Num(9, 10)}

\* the values handed to cfl(new_cfl): nothing restricts the argument
NewCflSet == CflSet \cup {0, -Half}

\* the states of the nodes handed to step
StateSet ==
  {from_primitive_state(One, Num(3, 4), One),
   from_primitive_state(Num(1, 8), 0, Num(1, 10))}

\* the state vectors handed to step: a uniform state, and a jump from one
\* state at the first node to the other state at all further nodes
OldUSet ==
  {[i \in Nodes |-> IF i = 1 THEN l ELSE r] : l \in StateSet, r \in StateSet}

\* the prescribed tau handed to step; 0 selects tau_max
TauSet == {0, Num(1, 8), Num(17, 64), Num(5, 16), One}

\* the indicator values: the high-order viscosity is alpha * d_ij
AlphaSet == {0, One}

EmptyMatrix == [e \in {} |-> 0]

ZeroMatrix == [e \in Entries |-> 0]

NoStep ==
  [old_U |-> EmptyMatrix, tau |-> 0, alpha |-> 0, strategy |-> "none",
   cfl |-> 0, tau_max |-> 0, tau_used |-> 0, violation |-> FALSE,
   outcome |-> "none",
   returned |-> 0]

\* the EulerModule after construction
InitModule ==
  /\ offline_data \in GraphSet
  /\ phase = "Uninitialized"
  /\ id_violation_strategy_ \in IDViolationStrategy
  /\ cfl_ \in CflSet
  /\ n_restarts_ = 0
  /\ n_warnings_ = 0
  /\ dij_matrix_ = EmptyMatrix
  /\ lij_matrix_ = EmptyMatrix
  /\ new_U = EmptyMatrix
  /\ last_step = NoStep
  /\ n_calls = 0
  /\ restarted_calls = 0

\* no EulerModule is in use
ModuleIdle ==
  /\ offline_data = Ring
  /\ phase = "Uninitialized"
  /\ id_violation_strategy_ = "warn"
  /\ cfl_ = Half
  /\ n_restarts_ = 0
  /\ n_warnings_ = 0
  /\ dij_matrix_ = EmptyMatrix
  /\ lij_matrix_ = EmptyMatrix
  /\ new_U = EmptyMatrix
  /\ last_step = NoStep
  /\ n_calls = 0
  /\ restarted_calls = 0

RSIdle ==
  /\ rs_data_i = Primitive(One, 0, One, One)
  /\ rs_data_j = Primitive(One, 0, One, One)
  /\ rs_pc = "idle"
  /\ rs_result = NoResult
  /\ rs_swapped = NoResult

StagesIdle ==
  /\ st_graph = Ring
  /\ st_old_U = EmptyMatrix
  /\ st_dij = EmptyMatrix
  /\ st_stages = <<>>
  /\ st_pc = "idle"
  /\ st_flux = EmptyMatrix

NoLimit == [t |-> 0, success |-> FALSE, U |-> ZeroState]

LimiterIdle ==
  /\ lim_bounds = [rho_min |-> 0, rho_max |-> 0]
  /\ lim_U = ZeroState
  /\ lim_P = ZeroState
  /\ lim_max_iter = 0
  /\ lim_pc = "idle"
  /\ lim_n = 0
  /\ lim_t_l = 0
  /\ lim_t_r = 0
  /\ lim_result = NoLimit

NoLeBlanc ==
  [region |-> "none", divisor |-> 0, primitive |-> <<0, 0, 0>>,
   state |-> ZeroState]

LeBlancIdle ==
  /\ lb_x = 0
  /\ lb_t = 0
  /\ lb_pc = "idle"
  /\ lb_result = NoLeBlanc

Init == InitModule /\ RSIdle /\ StagesIdle /\ LimiterIdle /\ LeBlancIdle

\* prepare(): allocates the temporary storage, sized to the graph
prepare ==
  /\ phase' = "Prepared"
  /\ dij_matrix_' = ZeroMatrix
  /\ lij_matrix_' = ZeroMatrix
  /\ UNCHANGED <<offline_data, id_violation_strategy_, cfl_, n_restarts_,
                 n_warnings_, new_U, last_step, n_calls, restarted_calls>>
  /\ UNCHANGED outside_module_vars

\* cfl(new_cfl)
cfl(new_cfl) ==
  /\ cfl_ > 0
  /\ cfl_' = new_cfl
  /\ UNCHANGED <<offline_data, phase, id_violation_strategy_, n_restarts_,
                 n_warnings_, dij_matrix_, lij_matrix_, new_U, last_step,
                 n_calls, restarted_calls>>
  /\ UNCHANGED outside_module_vars

\* assignment to the public field id_violation_strategy_
set_id_violation_strategy(strategy) ==
  /\ id_violation_strategy_' = strategy
  /\ UNCHANGED <<offline_data, phase, cfl_, n_restarts_, n_warnings_,
                 dij_matrix_, lij_matrix_, new_U, last_step, n_calls,
                 restarted_calls>>
  /\ UNCHANGED outside_module_vars

\* what one call of step computes from its arguments, the graph and cfl_
\* the end of the step: the values it leaves and the result of its checks
step_check(d, tau_max, tau, low_U, lij, U_new) ==
  [dij |-> d, tau_max |-> tau_max, tau |-> tau, low_U |-> low_U,
   lij |-> lij, new_U |-> U_new,
   restart_needed |-> restart_needed(U_new, tau, tau_max)]

\* the step from the limiter matrix on: the corrected update
step_correct(d, tau_max, tau, low_U, pij, lij) ==
  step_check(d, tau_max, tau, low_U, lij,
             Stored(corrected_update(low_U, lij, pij)))

\* the step from the low-order update on: the limiter
step_limit(g, d, tau_max, tau, low_U, pij) ==
  step_correct(d, tau_max, tau, low_U, pij,
               Stored(compute_lij(g, low_U, pij)))

\* the step from the chosen tau on: low-order update and corrections P_ij
step_update(g, old_U, alpha, d, tau_max, tau) ==
  step_limit(g, d, tau_max, tau,
             Stored(low_order_update(g, old_U, d, tau)),
             Stored(compute_pij(g, old_U, d, alpha, tau)))

\* the step from tau_max on: the choice of tau
step_select_tau(g, old_U, tau_arg, alpha, d, tau_max) ==
  step_update(g, old_U, alpha, d, tau_max, select_tau(tau_arg, tau_max))

\* the step from the viscosities on: tau_max
step_tau_max(g, cfl_number, old_U, tau_arg, alpha, d) ==
  step_select_tau(g, old_U, tau_arg, alpha, d,
                  compute_tau_max(g, d, cfl_number))

\* the values computed by one call of step, starting with the viscosities
step_values(g, cfl_number, old_U, tau_arg, alpha) ==
  step_tau_max(g, cfl_number, old_U, tau_arg, alpha,
               Stored(compute_dij(g, old_U)))

\* step_values on every combination of inputs of the model, computed once
StepInputs == GraphSet \X NewCflSet \X OldUSet \X TauSet \X AlphaSet

StepTable ==
  Stored([x \in StepInputs |-> step_values(x[1], x[2], x[3], x[4], x[5])])

\* a Restart thrown on every violation, whatever the strategy
throws_restart_always(violation, strategy) == violation

\* the behaviour on detection of a violation: warn takes no further action,
\* raise_exception throws a Restart
throws_restart(violation, strategy) ==
  violation /\ strategy = "raise_exception"

\* returning the step size the update was performed with
step_return_tau_used(tau, tau_max) == tau

\* the scalar step returns: the computed maximal time-step size tau_max
step_return(tau, tau_max) == tau_max

\* a module that has to be prepared again after a Restart
is_prepared_not_restarted(ph) == ph = "Prepared"

\* prepare() has been called: the temporary storage exists
is_prepared(ph) == ph \in {"Prepared", "Restarted"}

\* step(old_U, ..., new_U, new_dij, tau)
step(old_U, tau_arg, alpha) ==
  /\ is_prepared(phase)
  /\ n_calls < MaxCalls
  /\ \E v \in {StepTable[<<offline_data, cfl_, old_U, tau_arg, alpha>>]} :
       \E restart \in {throws_restart(v.restart_needed, id_violation_strategy_)} :
         /\ dij_matrix_' = v.dij
         /\ lij_matrix_' = v.lij
         /\ new_U' = v.new_U
         /\ n_warnings_' =
              IF v.restart_needed /\ ~restart
                THEN n_warnings_ + 1 ELSE n_warnings_
         /\ n_restarts_' = IF restart THEN n_restarts_ + 1 ELSE n_restarts_
         /\ restarted_calls' =
              IF restart THEN restarted_calls + 1 ELSE restarted_calls
         /\ phase' = IF restart THEN "Restarted" ELSE "Prepared"
         /\ last_step' =
              [old_U |-> old_U, tau |-> tau_arg, alpha |-> alpha,
               strategy |-> id_violation_strategy_, cfl |-> cfl_,
               tau_max |-> v.tau_max, tau_used |-> v.tau,
               violation |-> v.restart_needed,
               outcome |-> IF restart THEN "Restart" ELSE "Ok",
               returned |-> IF restart THEN 0
                            ELSE step_return(v.tau, v.tau_max)]
  /\ n_calls' = n_calls + 1
  /\ UNCHANGED <<offline_data, id_violation_strategy_, cfl_>>
  /\ UNCHANGED outside_module_vars

Next ==
  \/ prepare
  \/ \E new_cfl \in NewCflSet : cfl(new_cfl)
  \/ \E strategy \in IDViolationStrategy : set_id_violation_strategy(strategy)
  \/ \E old_U \in OldUSet, tau_arg \in TauSet, alpha \in AlphaSet :
       step(old_U, tau_arg, alpha)

Spec == Init /\ [][Next]_vars

\* the Riemann solver applied to one pair of states, in both orderings
InitRS ==
  /\ ModuleIdle
  /\ StagesIdle
  /\ LimiterIdle
  /\ LeBlancIdle
  /\ \E pair \in PairSet : rs_data_i = pair[1] /\ rs_data_j = pair[2]
  /\ rs_pc = "input"
  /\ rs_result = NoResult
  /\ rs_swapped = NoResult

RSCompute ==
  /\ rs_pc = "input"
  /\ rs_result' = Evaluate(rs_data_i, rs_data_j)
  /\ rs_pc' = "computed"
  /\ UNCHANGED <<rs_data_i, rs_data_j, rs_swapped, outside_rs_vars>>

RSComputeSwapped ==
  /\ rs_pc = "computed"
  /\ rs_swapped' = Evaluate(Mirror(rs_data_j), Mirror(rs_data_i))
  /\ rs_pc' = "swapped"
  /\ UNCHANGED <<rs_data_i, rs_data_j, rs_result, outside_rs_vars>>

NextRS == RSCompute \/ RSComputeSwapped

SpecRS == InitRS /\ [][NextRS]_vars

\* ------------------------------------------------------------------------
\* The modified high-order flux of step<stages>
\* ------------------------------------------------------------------------

\* the template parameter stages is 0 .. MaxStages
MaxStages == 2

\* the symmetric graph viscosity with the value v on every edge of g
UniformDij(g, v) ==
  [e \in Entries |-> IF IsEdge(g, e[1], e[2]) THEN v ELSE 0]

\* the high-order viscosities of old_U
HighOrderDijSet(g) == {UniformDij(g, v) : v \in {Num(1, 4), One}}

\* the high-order viscosities of the stages
StageDijSet(g) == {UniformDij(g, Half)}

\* the weights handed to step: the type of stage_weights is
\* std::array<Number, stages>, nothing restricts its entries
StageWeightSet == {-One, 0, Half, One}

\* the state vectors of the stages
StageUSet ==
  {[i \in Nodes |-> IF i = 1 THEN l ELSE r] :
     l \in StateSet, r \in {from_primitive_state(One, Num(3, 4), One)}}

\* one stage: stage_U[s], stage_dij[s], stage_weights[s]
StageSet(g) ==
  [U : StageUSet, dij : StageDijSet(g), weight : StageWeightSet]

RECURSIVE StageSeqs(_, _)
\* the sequences of n stages
StageSeqs(g, n) ==
  IF n = 0 THEN {<<>>}
  ELSE {Append(seq, stage) : seq \in StageSeqs(g, n - 1), stage \in StageSet(g)}

InitStages ==
  /\ ModuleIdle
  /\ RSIdle
  /\ LimiterIdle
  /\ LeBlancIdle
  /\ st_graph \in GraphSet
  /\ st_old_U \in OldUSet
  /\ st_dij \in HighOrderDijSet(st_graph)
  /\ \E n \in 0 .. MaxStages : st_stages \in StageSeqs(st_graph, n)
  /\ st_pc = "input"
  /\ st_flux = EmptyMatrix

\* the assembly of the high-order flux within step<stages>
assemble_high_order_flux ==
  /\ st_pc = "input"
  /\ st_flux' = [i \in Nodes |->
                   modified_high_order_flux(st_graph, st_old_U, st_dij,
                                            st_stages, i)]
  /\ st_pc' = "assembled"
  /\ UNCHANGED <<st_graph, st_old_U, st_dij, st_stages, outside_stage_vars>>

NextStages == assemble_high_order_flux

SpecStages == InitStages /\ [][NextStages]_vars

\* ------------------------------------------------------------------------
\* Limiter::limit with the Newton refinement
\* ------------------------------------------------------------------------

\* the largest newton_max_iter (limiter_iter_) considered
MaxNewtonIter == 3

\* the low-order states handed to limit
LimiterUSet == StateSet

\* the corrections P handed to limit
LimiterPSet ==
  {State(0, Num(2, 1), 0), State(0, -Num(2, 1), Half),
   State(-Half, 0, -Num(5, 2)), State(Num(1, 4), Half, One),
   State(-Num(1, 16), Num(3, 4), -Num(1, 8)), State(Half, Num(3, 1), One)}

\* bounds on the density around the density of U
LimiterBoundsSet(U) ==
  {[rho_min |-> U.rho - below, rho_max |-> U.rho + above] :
     below \in {Num(1, 16), Half}, above \in {Num(1, 8), One}}

InitLimiter ==
  /\ ModuleIdle
  /\ RSIdle
  /\ StagesIdle
  /\ LeBlancIdle
  /\ lim_U \in LimiterUSet
  /\ lim_P \in LimiterPSet
  /\ lim_bounds \in LimiterBoundsSet(lim_U)
  /\ lim_max_iter \in 0 .. MaxNewtonIter
  /\ lim_pc = "input"
  /\ lim_n = 0
  /\ lim_t_l = 0
  /\ lim_t_r = 0
  /\ lim_result = NoLimit

\* the closed-form bound: the bracket of the refinement is [t_min, closed form]
limit_closed_form ==
  /\ lim_pc = "input"
  /\ lim_t_l' = 0
  /\ lim_t_r' = limit(lim_bounds, lim_U, lim_P)
  /\ lim_pc' = "refine"
  /\ UNCHANGED <<lim_bounds, lim_U, lim_P, lim_max_iter, lim_n, lim_result,
                 outside_limiter_vars>>

\* one iteration of the refinement
newton_step ==
  /\ lim_pc = "refine"
  /\ keep_iterating(lim_n, lim_max_iter,
                    refinement_consistent(lim_U, lim_P, lim_t_l, lim_t_r))
  /\ \E l \in {secant_left(lim_U, lim_P, lim_t_l, lim_t_r)},
        r \in {newton_right(lim_U, lim_P, lim_t_l, lim_t_r)} :
       /\ lim_t_l' = Min(l, r)
       /\ lim_t_r' = Max(l, r)
  /\ lim_n' = lim_n + 1
  /\ UNCHANGED <<lim_bounds, lim_U, lim_P, lim_max_iter, lim_pc, lim_result,
                 outside_limiter_vars>>

\* return {coefficient, flag}: the refined coefficient if the refinement is
\* consistent, else the closed-form coefficient; the caller forms U + t P
limit_return ==
  /\ lim_pc = "refine"
  /\ ~keep_iterating(lim_n, lim_max_iter,
                     refinement_consistent(lim_U, lim_P, lim_t_l, lim_t_r))
  /\ \E success \in {refinement_consistent(lim_U, lim_P, lim_t_l, lim_t_r)},
        closed_form \in {limit(lim_bounds, lim_U, lim_P)} :
       \E t \in {IF success
                   THEN refined_coefficient(lim_U, lim_P, lim_t_l, lim_t_r)
                   ELSE closed_form} :
         lim_result' = [t |-> t, success |-> success,
                        U |-> state_at(lim_U, lim_P, t)]
  /\ lim_pc' = "returned"
  /\ UNCHANGED <<lim_bounds, lim_U, lim_P, lim_max_iter, lim_n, lim_t_l,
                 lim_t_r, outside_limiter_vars>>

NextLimiter == limit_closed_form \/ newton_step \/ limit_return

\* limit runs to its end: the loop is a sequential computation
SpecLimiter == InitLimiter /\ [][NextLimiter]_vars /\ WF_vars(NextLimiter)

\* ------------------------------------------------------------------------
\* LeBlanc::compute applied to points and times
\* ------------------------------------------------------------------------

\* the points are taken from [-LeBlancExtent, LeBlancExtent]
LeBlancExtent == 2

\* the points: multiples of 1/8, and the points next to 0
XSet ==
  {Num(k, 8) : k \in -8 * LeBlancExtent .. 8 * LeBlancExtent} \cup {-1, 1}

\* the times: 0, the smallest positive Number, and later times
TSet == {0, 1, Num(1, 4), One, Num(2, 1)}

InitLeBlanc ==
  /\ ModuleIdle
  /\ RSIdle
  /\ StagesIdle
  /\ LimiterIdle
  /\ lb_x \in XSet
  /\ lb_t \in TSet
  /\ lb_pc = "input"
  /\ lb_result = NoLeBlanc

\* compute(point, t)
LeBlancCompute ==
  /\ lb_pc = "input"
  /\ \E region \in {region_of(lb_x, lb_t)} :
       \E result \in {primitive_of(region, lb_x, lb_t)} :
         lb_result' =
           [region    |-> region,
            divisor   |-> IF region = "expansion" THEN lb_t ELSE One,
            primitive |-> result,
            state     |-> IF region = "expansion" /\ lb_t = 0
                            THEN ZeroState
                            ELSE from_primitive_state(result[1], result[2],
                                                      result[3])]
  /\ lb_pc' = "returned"
  /\ UNCHANGED <<lb_x, lb_t, outside_leblanc_vars>>

NextLeBlanc == LeBlancCompute

SpecLeBlanc == InitLeBlanc /\ [][NextLeBlanc]_vars

\* ------------------------------------------------------------------------
\* Properties of EulerModule::step (checked under Spec)
\* ------------------------------------------------------------------------

\* the limited (corrected) state of the last call of step
corrected_update_of_last_step ==
  LET low_U == Stored(low_order_update(offline_data, last_step.old_U,
                                       dij_matrix_, last_step.tau_used))
      pij   == Stored(compute_pij(offline_data, last_step.old_U, dij_matrix_,
                                  last_step.alpha, last_step.tau_used))
  IN  corrected_update(low_U, lij_matrix_, pij)

\* the transition is a call of step
StepTaken == n_calls' = n_calls + 1

\* some call of step is accepted in the current state
StepAccepted ==
  ENABLED (\E old_U \in OldUSet, tau_arg \in TauSet, alpha \in AlphaSet :
             step(old_U, tau_arg, alpha))

\* C1: under raise_exception every call of step whose prescribed tau exceeds
\* 1.5 tau_max ends in Restarted with a restart signal and increments
\* n_restarts_ by exactly one; n_restarts_ always equals the number of calls
\* that ended in Restarted.
C1_RestartOncePerCall ==
  /\ [][(/\ StepTaken
         /\ id_violation_strategy_ = "raise_exception"
         /\ 2 * last_step'.tau > 3 * last_step'.tau_max)
        => (/\ phase' = "Restarted"
            /\ last_step'.outcome = "Restart"
            /\ n_restarts_' = n_restarts_ + 1)]_vars
  /\ [][StepTaken =>
          n_restarts_' = n_restarts_ + (IF phase' = "Restarted" THEN 1 ELSE 0)]_vars
  /\ [](n_restarts_ = restarted_calls)

C1_Witness ==
  /\ last_step.outcome = "Restart"
  /\ 2 * last_step.tau > 3 * last_step.tau_max
  /\ \A i \in Nodes : is_admissible(new_U[i])
  /\ n_restarts_ = 2

\* C2: under warn a step with a failed admissibility or CFL-tolerance check is
\* not aborted: it completes, hands back the limited new state, goes back to
\* Prepared, signals no restart, leaves n_restarts_ unchanged and records a
\* warning.
C2_WarnNeverAborts ==
  /\ [][(StepTaken /\ id_violation_strategy_ = "warn")
        => (/\ phase' = "Prepared"
            /\ last_step'.outcome = "Ok"
            /\ last_step'.returned = last_step'.tau_max
            /\ n_restarts_' = n_restarts_
            /\ n_warnings_' =
                 n_warnings_ + (IF last_step'.violation THEN 1 ELSE 0))]_vars
  /\ []((/\ last_step.strategy = "warn"
         /\ last_step.violation
         /\ dij_matrix_ # ZeroMatrix)
          => new_U = corrected_update_of_last_step)

C2_Witness ==
  /\ last_step.strategy = "warn"
  /\ last_step.violation
  /\ \E i \in Nodes : ~is_admissible(new_U[i])
  /\ last_step.outcome = "Ok"
  /\ phase = "Prepared"
  /\ n_warnings_ = 2
  /\ n_restarts_ = 0

\* C3: under raise_exception, whenever step returns a new state, every node of
\* it is admissible and the tau used exceeds tau_max by no more than about
\* 10%; a returned state with an inadmissible node has a recorded violation.
C3_ReturnedStateAdmissible ==
  /\ (last_step.outcome = "Ok" /\ last_step.strategy = "raise_exception")
       => (/\ \A i \in Nodes : is_admissible(new_U[i])
           /\ 10 * last_step.tau_used <= 11 * last_step.tau_max + 10)
  /\ (last_step.outcome = "Ok" /\ \E i \in Nodes : ~is_admissible(new_U[i]))
       => (last_step.violation /\ n_warnings_ >= 1)

C3_Witness ==
  /\ last_step.outcome = "Ok"
  /\ last_step.strategy = "raise_exception"
  /\ last_step.tau # 0
  /\ last_step.tau_used > last_step.tau_max

\* C4: the update is performed with the prescribed tau when it is nonzero and
\* with the tau_max of the call when it is 0; a nonzero tau is never clipped.
C4_TauSelection ==
  last_step.outcome # "none" =>
    /\ last_step.tau_used =
         (IF last_step.tau # 0 THEN last_step.tau ELSE last_step.tau_max)
    /\ (last_step.alpha = One /\ dij_matrix_ # ZeroMatrix)
         => new_U = low_order_update(offline_data, last_step.old_U, dij_matrix_,
                                     IF last_step.tau # 0 THEN last_step.tau
                                     ELSE last_step.tau_max)

C4_Witness ==
  /\ last_step.outcome = "Ok"
  /\ last_step.tau # 0
  /\ last_step.tau > last_step.tau_max
  /\ last_step.tau_used = last_step.tau
  /\ last_step.alpha = One
  /\ dij_matrix_ # ZeroMatrix

\* C5 (as claimed): the scalar returned by step is the step size the update
\* was performed with.
C5_ReturnsTauUsed ==
  last_step.outcome = "Ok" => last_step.returned = last_step.tau_used

\* C5 (amended): the scalar returned by step is the tau_max computed in the
\* call, also when a nonzero tau was prescribed; it is the step size used
\* when the tau argument is 0.
C5_ReturnsTauMax ==
  last_step.outcome = "Ok" =>
    /\ last_step.returned = last_step.tau_max
    /\ last_step.tau = 0 => last_step.returned = last_step.tau_used

C5_Witness ==
  /\ last_step.outcome = "Ok"
  /\ last_step.tau # 0
  /\ last_step.tau_used # last_step.tau_max
  /\ last_step.returned = last_step.tau_max

\* C6: Uninitialized -> Prepared -> Stepping -> {Prepared | Restarted}: no
\* step runs before prepare(), prepare() only allocates (zeroed) buffers, and
\* after a step that ended in Prepared or Restarted a further step is
\* accepted without another prepare().
C6_Lifecycle ==
  /\ [](phase = "Uninitialized" => (n_calls = 0 /\ ~StepAccepted))
  /\ []((phase \in {"Prepared", "Restarted"} /\ n_calls < MaxCalls)
          => StepAccepted)
  /\ [][StepTaken => (/\ phase \in {"Prepared", "Restarted"}
                      /\ phase' \in {"Prepared", "Restarted"})]_vars
  /\ [][(phase = "Uninitialized" /\ phase' # phase)
        => (/\ phase' = "Prepared"
            /\ dij_matrix_' = ZeroMatrix
            /\ lij_matrix_' = ZeroMatrix
            /\ UNCHANGED <<offline_data, id_violation_strategy_, cfl_,
                           n_restarts_, n_warnings_, new_U, last_step,
                           n_calls>>)]_vars

C6_Witness ==
  /\ n_calls = 2
  /\ n_restarts_ = 1
  /\ last_step.outcome = "Ok"
  /\ phase = "Prepared"

\* the viscosities of every graph and every state vector of the model
DijTable ==
  Stored([x \in GraphSet \X OldUSet |-> Stored(compute_dij(x[1], x[2]))])

\* C10: after the viscosity assembly of a step d_ij = d_ji and d_ij >= 0 for
\* every edge, and the matrix is the one assembled from the old_U of this
\* call: nothing of an earlier call (also one that ended in Restarted) is left.
C10_ViscositySymmetric ==
  (last_step.outcome # "none" /\ dij_matrix_ # ZeroMatrix) =>
    /\ \A i \in Nodes, j \in Nodes :
         /\ dij_matrix_[<<i, j>>] = dij_matrix_[<<j, i>>]
         /\ dij_matrix_[<<i, j>>] >= 0
         /\ IsEdge(offline_data, i, j) => dij_matrix_[<<i, j>>] > 0
    /\ dij_matrix_ = DijTable[<<offline_data, last_step.old_U>>]

C10_Witness ==
  /\ n_calls = 2
  /\ restarted_calls >= 1
  /\ \E i \in Nodes, j \in Nodes :
       /\ IsEdge(offline_data, i, j)
       /\ lambda_times_norm(offline_data, last_step.old_U, i, j)
            # lambda_times_norm(offline_data, last_step.old_U, j, i)
       /\ dij_matrix_[<<i, j>>] = dij_matrix_[<<j, i>>]

\* ------------------------------------------------------------------------
\* Properties of RiemannSolver::compute (checked under SpecRS)
\* ------------------------------------------------------------------------

\* C7: for admissible Riemann data compute returns lambda_max >= 0: the
\* maximum of the positive part of lambda3_plus(state_j, p_2) and the
\* negative part of lambda1_minus(state_i, p_2).
C7_LambdaMaxNonNegative ==
  rs_pc \in {"computed", "swapped"} =>
    /\ rs_result.lambda_max >= 0
    /\ rs_result.lambda_max =
         Max(positive_part(lambda3_plus(rs_data_j, rs_result.p_2)),
             negative_part(lambda1_minus(rs_data_i, rs_result.p_2)))

C7_Witness ==
  /\ rs_pc = "computed"
  /\ lambda3_plus(rs_data_j, rs_result.p_2) < 0
  /\ rs_result.lambda_max > 0

x_close_to_y(x, y) == Abs(x - y) <= 4 + Max(Abs(x), Abs(y)) \div 32

C9_IdenticalStates ==
  (rs_pc \in {"computed", "swapped"} /\ rs_data_i = rs_data_j) =>
    /\ rs_result.phi_p_max = 0
    /\ rs_result.p_star_tilde = rs_data_i.p
    /\ rs_result.p_2 = rs_data_i.p
    /\ rs_result.lambda_max =
         Max(positive_part(rs_data_i.u + rs_data_i.a),
             negative_part(rs_data_i.u - rs_data_i.a))
    /\ rs_result.lambda_max = Abs(rs_data_i.u) + rs_data_i.a

C9_Witness ==
  /\ rs_pc = "computed"
  /\ rs_data_i = rs_data_j
  /\ rs_data_i.u < 0
  /\ rs_result.lambda_max = rs_data_i.a - rs_data_i.u

\* ------------------------------------------------------------------------
\* Properties of the limiter and of the time-step size (checked under Spec)
\* ------------------------------------------------------------------------

\* a call of step has left its matrices in the module
StepStored == last_step.outcome # "none" /\ dij_matrix_ # ZeroMatrix

\* the low-order update of the last call of step
low_U_of_last_step ==
  Stored(low_order_update(offline_data, last_step.old_U, dij_matrix_,
                          last_step.tau_used))

\* the high-order corrections P_ij of the last call of step
pij_of_last_step ==
  Stored(compute_pij(offline_data, last_step.old_U, dij_matrix_,
                     last_step.alpha, last_step.tau_used))

\* the coefficient of edge (i, j) computed from the bounds of node i alone
coefficient_of_node(low_U, pij, i, j) ==
  limit(compute_bounds(offline_data, low_U, i), low_U[i], pij[<<i, j>>])

\* every l_ij of the matrix is in [0, 1], l_ij = l_ji, and on every edge l_ij
\* is the smaller of the coefficients of its two end nodes
lij_is_symmetric_minimum(low_U, pij) ==
  \A i \in Nodes, j \in Nodes :
    /\ 0 <= lij_matrix_[<<i, j>>]
    /\ lij_matrix_[<<i, j>>] <= One
    /\ lij_matrix_[<<i, j>>] = lij_matrix_[<<j, i>>]
    /\ IsEdge(offline_data, i, j)
         => lij_matrix_[<<i, j>>] =
              Min(coefficient_of_node(low_U, pij, i, j),
                  coefficient_of_node(low_U, pij, j, i))

\* C11: every limiter coefficient used in the corrected update satisfies
\* 0 <= l_ij <= 1 and l_ij = l_ji = min(coefficient from node i's bounds,
\* coefficient from node j's bounds) on every edge, and the state handed
\* back is the low-order update corrected with exactly these coefficients.
C11_LimiterSymmetricMinimum ==
  StepStored =>
    /\ lij_is_symmetric_minimum(low_U_of_last_step, pij_of_last_step)
    /\ new_U = corrected_update(low_U_of_last_step, lij_matrix_,
                                pij_of_last_step)

\* an edge whose end nodes give different coefficients
nodes_disagree(low_U, pij) ==
  \E i \in Nodes, j \in Nodes :
    /\ IsEdge(offline_data, i, j)
    /\ coefficient_of_node(low_U, pij, i, j)
         < coefficient_of_node(low_U, pij, j, i)
    /\ lij_matrix_[<<j, i>>] = coefficient_of_node(low_U, pij, i, j)

C11_Witness ==
  /\ StepStored
  /\ nodes_disagree(low_U_of_last_step, pij_of_last_step)
  /\ \E e \in Entries : 0 < lij_matrix_[e] /\ lij_matrix_[e] < One

\* min_i CFL * m_i / (2 * sum_j d_ij) over the nodes i that have off-diagonal
\* neighbours, evaluated on the matrix d
tau_max_bound(g, d, cfl_number) ==
  SetMin({Div(Mul(cfl_number, g.lumped_mass_matrix[i]), 2 * row_sum(d, i)) :
            i \in {k \in Nodes : \E j \in Nodes : IsEdge(g, k, j)}})

C13_CflPositive == cfl_ > 0

\* the assertion of cfl() tests the value stored before the call: a call
\* passes it exactly when the old cfl_ is positive, whatever new_cfl is, and
\* then stores new_cfl
C13_AssertionTestsOldValue ==
  [][cfl_' # cfl_ => (cfl_ > 0 /\ cfl_' \in NewCflSet)]_vars

\* sum_i m_i U_i
mass_weighted_total(g, U) ==
  SumStates([i \in Nodes |-> SMul(g.lumped_mass_matrix[i], U[i])], NumNodes)

\* sum_i sum_j flux(U_j) . c_ij
flux_total(g, U) ==
  SumStates([i \in Nodes |->
               SumStates([j \in Nodes |->
                            flux_times_c(U[j], g.cij_matrix[<<i, j>>])],
                         NumNodes)],
            NumNodes)

\* the largest component of U in absolute value
SNorm(U) == Max(Abs(U.rho), Max(Abs(U.m), Abs(U.E)))

\* the rounding of the evaluation of the balance: at most four roundings of
\* half a unit of the last place for every node
balance_rounding == 2 * NumNodes

\* the direction vectors of g are antisymmetric off the diagonal
cij_antisymmetric(g) ==
  \A i \in Nodes, j \in Nodes :
    i # j => g.cij_matrix[<<j, i>>] = -g.cij_matrix[<<i, j>>]

\* the viscosity contribution d_ij (U_j - U_i) to node i is the opposite of
\* the contribution d_ji (U_i - U_j) to node j
viscosity_cancels(U, d) ==
  \A i \in Nodes, j \in Nodes :
    SAdd(SMul(d[<<i, j>>], SSub(U[j], U[i])),
         SMul(d[<<j, i>>], SSub(U[i], U[j]))) = ZeroState

\* the limited correction m_i l_ij P_ij of node i is the opposite of the
\* correction m_j l_ji P_ji of node j
correction_cancels(g, lij, pij) ==
  \A i \in Nodes, j \in Nodes :
    LET to_i == SMul(lij[<<i, j>>], pij[<<i, j>>])
        to_j == SMul(lij[<<j, i>>], pij[<<j, i>>])
    IN  IF g.lumped_mass_matrix[i] = g.lumped_mass_matrix[j]
          THEN SAdd(to_i, to_j) = ZeroState
          ELSE SNorm(SAdd(SMul(g.lumped_mass_matrix[i], to_i),
                          SMul(g.lumped_mass_matrix[j], to_j))) <= 2

\* sum_i m_i U_i^new - sum_i m_i U_i^old + tau sum_i sum_j flux(U_j) . c_ij
balance_defect(g, old_U, U, tau) ==
  SAdd(SSub(mass_weighted_total(g, U), mass_weighted_total(g, old_U)),
       SMul(tau, flux_total(g, old_U)))

\* C14: the state of a step is conservative: with antisymmetric c_ij and
\* symmetric d_ij and l_ij the viscosity contributions and the limited
\* corrections of the two end nodes of every edge cancel, so that
\* sum_i m_i U_i of the new state differs from that of the old state by
\* -tau sum_i sum_j flux(U_j) . c_ij alone (up to the rounding of the sums).
C14_Conservative ==
  StepStored =>
    /\ cij_antisymmetric(offline_data)
    /\ viscosity_cancels(last_step.old_U, dij_matrix_)
    /\ correction_cancels(offline_data, lij_matrix_, pij_of_last_step)
    /\ SNorm(balance_defect(offline_data, last_step.old_U, new_U,
                            last_step.tau_used)) <= balance_rounding

C14_Witness ==
  /\ StepStored
  /\ \E i \in Nodes, j \in Nodes :
       /\ SMul(dij_matrix_[<<i, j>>],
               SSub(last_step.old_U[j], last_step.old_U[i])) # ZeroState
       /\ SMul(lij_matrix_[<<i, j>>], pij_of_last_step[<<i, j>>]) # ZeroState
       /\ lij_matrix_[<<i, j>>] < One
  /\ SNorm(SMul(last_step.tau_used,
                flux_total(offline_data, last_step.old_U))) > 8 * balance_rounding
  /\ new_U # last_step.old_U

\* ------------------------------------------------------------------------
\* Properties of the modified high-order flux (checked under SpecStages)
\* ------------------------------------------------------------------------

\* the standard flux R_i of old_U with the high-order viscosity
standard_flux(i) == high_order_flux(st_graph, st_old_U, st_dij, i)

\* the flux R_i^s of stage s
stage_flux(s, i) ==
  high_order_flux(st_graph, st_stages[s].U, st_stages[s].dij, i)

\* sum_s w_s (R_i^s - R_i)
weighted_stage_differences(i) ==
  SumStates([s \in 1 .. Len(st_stages) |->
               SMul(st_stages[s].weight,
                    SSub(stage_flux(s, i), standard_flux(i)))],
            Len(st_stages))

\* the blending weights are convex
weights_convex ==
  /\ \A s \in 1 .. Len(st_stages) : st_stages[s].weight >= 0
  /\ sum_of_weights(st_stages) <= One

\* the assembled flux is the blend of the standard flux and the stage fluxes:
\* it is R_i for no stages and for weights that are all 0, and otherwise
\* R_i + sum_s w_s (R_i^s - R_i) up to one rounding for every product
flux_is_blend ==
  \A i \in Nodes :
    /\ (\A s \in 1 .. Len(st_stages) : st_stages[s].weight = 0)
         => st_flux[i] = standard_flux(i)
    /\ SNorm(SSub(st_flux[i],
                  SAdd(standard_flux(i), weighted_stage_differences(i))))
         <= Len(st_stages) + 1

closed_form_coefficient == limit(lim_bounds, lim_U, lim_P)

\* what holds of the values limit returns
limit_returned_within_bounds ==
  lim_pc = "returned" =>
    /\ lim_n <= lim_max_iter
    /\ 0 <= lim_result.t
    /\ lim_result.t <= One
    /\ lim_result.t <= closed_form_coefficient
    /\ lim_result.U = state_at(lim_U, lim_P, lim_result.t)
    /\ ~lim_result.success => lim_result.t = closed_form_coefficient

\* C16: the Newton refinement of the limiter never performs more than the
\* configured number of iterations and limit always returns, converged or
\* not; the coefficient returned is in [0, 1] and at most the closed-form
\* bound; without convergence (flag false) the closed-form coefficient is
\* returned and the update U + t P is formed with it.
C16_NewtonRefinementBounded ==
  /\ [](lim_n <= lim_max_iter)
  /\ []limit_returned_within_bounds
  /\ <>(lim_pc = "returned")

C16_Witness ==
  /\ lim_pc = "returned"
  /\ lim_n = lim_max_iter
  /\ lim_n = MaxNewtonIter
  /\ ~lim_result.success
  /\ lim_result.t > 0
  /\ psi_at(lim_U, lim_P, lim_result.t) < 0

\* a call whose refinement converges to a coefficient below the closed form
C16_RefinementSharpens ==
  /\ lim_pc = "returned"
  /\ lim_n > 0
  /\ lim_result.success
  /\ lim_result.t > 0
  /\ lim_result.t < closed_form_coefficient

\* ------------------------------------------------------------------------
\* Properties of the selection of p_2 (checked under SpecRS)
\* ------------------------------------------------------------------------

\* compute has been evaluated for (rs_data_i, rs_data_j)
RSComputed == rs_pc \in {"computed", "swapped"}

\* p_max of the pair
rs_p_max == Max(rs_data_i.p, rs_data_j.p)

\* C17: p_2 is p_star_tilde if phi(p_max) < 0, and min(p_max, p_star_tilde)
\* otherwise, phi(p_max) = 0 included; hence p_2 <= p_star_tilde.
C17_SelectedPressure ==
  RSComputed =>
    /\ rs_result.phi_p_max < 0 => rs_result.p_2 = rs_result.p_star_tilde
    /\ rs_result.phi_p_max >= 0
         => rs_result.p_2 = Min(rs_p_max, rs_result.p_star_tilde)
    /\ rs_result.p_2 <= rs_result.p_star_tilde
    /\ rs_result.lambda_max =
         compute_lambda(rs_data_i, rs_data_j, rs_result.p_2)

\* phi(p_max) = 0 and p_max below p_star_tilde: p_2 is p_max
C17_Witness ==
  /\ RSComputed
  /\ rs_result.phi_p_max = 0
  /\ rs_p_max < rs_result.p_star_tilde
  /\ rs_result.p_2 = rs_p_max

\* both branches of the selection are taken with an effect
C17_BothBranches ==
  /\ RSComputed
  /\ rs_result.phi_p_max < 0
  /\ rs_result.p_2 > rs_p_max

\* a_i + a_j - (gamma - 1) / 2 (u_j - u_i) <= 0: the two states separate so
\* fast that a vacuum forms between them
vacuum_forms(riemann_data_i, riemann_data_j) ==
  riemann_data_i.a + riemann_data_j.a
    - Mul(Mul(gamma - One, Half), riemann_data_j.u - riemann_data_i.u) <= 0

\* C18: when a_i + a_j - (gamma - 1) / 2 (u_j - u_i) <= 0,
\* p_star_two_rarefaction returns exactly 0, the selected p_2 is 0 whatever
\* the sign of phi(p_max), and lambda_max is the larger of the positive part
\* of u_j + a_j and the negative part of u_i - a_i.
C18_VacuumGuard ==
  (RSComputed /\ vacuum_forms(rs_data_i, rs_data_j)) =>
    /\ rs_result.p_star_tilde = 0
    /\ rs_result.p_2 = 0
    /\ rs_result.lambda_max =
         Max(positive_part(rs_data_j.u + rs_data_j.a),
             negative_part(rs_data_i.u - rs_data_i.a))

C18_Witness ==
  /\ RSComputed
  /\ vacuum_forms(rs_data_i, rs_data_j)
  /\ rs_data_i.p # rs_data_j.p
  /\ rs_result.lambda_max > 0
  /\ rs_result.lambda_max = rs_data_j.u + rs_data_j.a
  /\ rs_result.lambda_max > negative_part(rs_data_i.u - rs_data_i.a)

\* ------------------------------------------------------------------------
\* Properties of LeBlanc::compute (checked under SpecLeBlanc)
\* ------------------------------------------------------------------------

\* the five regions as conditions on x and t, in their order
region_conditions(x, t) ==
  <<x <= Mul(-Num(1, 3), t),
    Mul(-Num(1, 3), t) < x /\ x < Mul(rarefaction_speed, t),
    Mul(rarefaction_speed, t) <= x /\ x < Mul(contact_velocity, t),
    Mul(contact_velocity, t) <= x /\ x < Mul(right_shock_speed, t),
    x >= Mul(right_shock_speed, t)>>

region_names ==
  <<"left", "expansion", "pre_contact", "post_contact", "right">>

\* the position of a region in the order of the regions
region_index(region) == CHOOSE k \in 1 .. 5 : region_names[k] = region

\* C19: for every point x and time t >= 0 compute selects one region, the
\* first in the order left (x <= -t/3), expansion, pre-contact, post-contact,
\* right (x >= right_shock_speed * t) whose condition holds, and no other
\* condition holds (but on the edge x = -t/3 of the left state when the fan
\* has no width, -t/3 = rarefaction_speed * t, as at t = 0: there left is
\* selected); the regions follow one another in this order as x grows; the
\* expansion branch, which divides by t, is entered only for t > 0; at t = 0
\* the result is the left primitive state for x <= 0 and the right
\* primitive state for x > 0.
C19_LeBlancRegions ==
  lb_pc = "returned" =>
    /\ lb_result.region \in {region_names[k] : k \in 1 .. 5}
    /\ region_conditions(lb_x, lb_t)[region_index(lb_result.region)]
    /\ \A k \in 1 .. 5 :
         (region_conditions(lb_x, lb_t)[k] /\ lb_result.region # region_names[k])
           => /\ lb_result.region = "left"
              /\ lb_x = Mul(-Num(1, 3), lb_t)
              /\ Mul(-Num(1, 3), lb_t) = Mul(rarefaction_speed, lb_t)
    /\ \A x \in XSet :
         x > lb_x =>
           region_index(region_of(x, lb_t)) >= region_index(lb_result.region)
    /\ lb_result.region = "expansion" => (lb_t > 0 /\ lb_result.divisor # 0)
    /\ lb_t = 0 =>
         /\ lb_x <= 0 => lb_result.primitive = primitive_left
         /\ lb_x > 0 => lb_result.primitive = primitive_right
    /\ lb_result.state =
         from_primitive_state(lb_result.primitive[1], lb_result.primitive[2],
                              lb_result.primitive[3])

C19_Witness ==
  /\ lb_pc = "returned"
  /\ lb_t = 0
  /\ lb_x = 0
  /\ lb_result.region = "left"
  /\ lb_result.primitive = primitive_left

\* every region is selected, the expansion with a chi on either side of 0
C19_AllRegions ==
  /\ lb_pc = "returned"
  /\ lb_t > 0
  /\ lb_result.region = "expansion"
  /\ lb_x < 0
  /\ \A k \in 1 .. 5 : \E x \in XSet : region_of(x, lb_t) = region_names[k]

====
